---- MODULE Spec2Model ----
(***************************************************************************)
(* A model of phylo (src/windows/phylo/phylo.cpp): the console program     *)
(* that lists the entries matching a path pattern, one line per entry.     *)
(*                                                                         *)
(* Numbers wider than 31 bits are kept as sequences of hexadecimal digits  *)
(* (0..15), most significant first: 8 digits for a DWORD / unsigned, 16    *)
(* digits for a ULARGE_INTEGER QuadPart.  Wide-character text is kept as a *)
(* sequence of one-character strings.                                      *)
(***************************************************************************)
EXTENDS Integers, Sequences, FiniteSets

VARIABLES
    pc,         \* position of the program: "start", "dir", "loop", "done", "fault", ...
    args,       \* argv[1..argc-1], each a text (argc = Len(args) + 1)
    out,        \* the texts written to the console by puts, in order
    buf,        \* text held by the global buffer buf
    writes,     \* terminator stores done so far: [arr, idx] of buf[n] = 0 / attribs[i] = 0
    find,       \* the enumeration handle of dir
    data,       \* the WIN32_FIND_DATA of dir
    delivered,  \* the entries the enumeration has delivered so far, in order
    ended,      \* how the enumeration ended: "none", "openfail", "exhausted", "error"
    lastError,  \* the thread's last-error code (GetLastError)
    nOpen,      \* successful FindFirstFile calls
    nClose,     \* FindClose calls
    badUse,     \* TRUE once a handle is used (FindNextFile/FindClose) while not open
    dirRet,     \* value returned by dir, -1 while dir has not returned
    exitCode,   \* value returned by run (the process exit code), -1 while running
    ft,         \* argument of a stand-alone FileTimeToPOSIX call
    expect,     \* the POSIX seconds from which ft was assembled
    posix       \* result of the stand-alone FileTimeToPOSIX call

vars == <<pc, args, out, buf, writes, find, data, delivered, ended, lastError,
          nOpen, nClose, badUse, dirRet, exitCode, ft, expect, posix>>

---------------------------------------------------------------------------
(* Fixed-width unsigned arithmetic on hexadecimal digit sequences.         *)

Base == 16

DWordDigits == 8

QuadDigits == 16

Zeros(w) == [k \in 1..w |-> 0]

RECURSIVE ToDigits(_, _)
\* the w-digit representation of the natural number n (n < 2^31)
ToDigits(n, w) == IF w = 0 THEN <<>> ELSE Append(ToDigits(n \div Base, w - 1), n % Base)

IsZero(x) == \A k \in 1..Len(x) : x[k] = 0

RECURSIVE AddC(_, _)
\* x + y of equal width: [d |-> digits of the sum modulo Base^width, c |-> carry out]
AddC(x, y) ==
    IF x = <<>> THEN [d |-> <<>>, c |-> 0]
    ELSE LET lo == AddC(Tail(x), Tail(y))
             v  == x[1] + y[1] + lo.c
         IN  [d |-> <<v % Base>> \o lo.d, c |-> v \div Base]

RECURSIVE SubB(_, _)
\* x - y of equal width: [d |-> digits of the difference modulo Base^width, b |-> borrow out]
SubB(x, y) ==
    IF x = <<>> THEN [d |-> <<>>, b |-> 0]
    ELSE LET lo == SubB(Tail(x), Tail(y))
             v  == x[1] - y[1] - lo.b
         IN  [d |-> <<(v + Base) % Base>> \o lo.d, b |-> IF v < 0 THEN 1 ELSE 0]

RECURSIVE MulC(_, _)
\* x * m for a small natural m: [d |-> digits modulo Base^width, c |-> carry out]
MulC(x, m) ==
    IF x = <<>> THEN [d |-> <<>>, c |-> 0]
    ELSE LET lo == MulC(Tail(x), m)
             v  == x[1] * m + lo.c
         IN  [d |-> <<v % Base>> \o lo.d, c |-> v \div Base]

RECURSIVE DivMod(_, _)
\* long division of x by a small natural d: [q |-> quotient digits, r |-> remainder]
DivMod(x, d) ==
    IF x = <<>> THEN [q |-> <<>>, r |-> 0]
    ELSE LET hi  == DivMod(SubSeq(x, 1, Len(x) - 1), d)
             cur == hi.r * Base + x[Len(x)]
         IN  [q |-> Append(hi.q, cur \div d), r |-> cur % d]

\* the 64-bit number whose decimal numeral is the numerals of a, b and c put
\* one after the other, b and c written with seven digits each
Decimal3(a, b, c) ==
    AddC(MulC(AddC(MulC(ToDigits(a, QuadDigits), 10000000).d, ToDigits(b, QuadDigits)).d,
              10000000).d,
         ToDigits(c, QuadDigits)).d

\* the low DWORD of a wider value: the conversion (unsigned)x
LowDWord(x) == SubSeq(x, Len(x) - DWordDigits + 1, Len(x))

---------------------------------------------------------------------------
(* Decimal numerals.                                                       *)

DigitChar(k) == <<"0", "1", "2", "3", "4", "5", "6", "7", "8", "9">>[k + 1]

RECURSIVE DecDigits(_)
DecDigits(x) ==
    IF IsZero(x) THEN <<>>
    ELSE LET p == DivMod(x, 10) IN Append(DecDigits(p.q), DigitChar(p.r))

\* the decimal numeral of x read as an unsigned value
UnsignedDecimal(x) == IF IsZero(x) THEN <<"0">> ELSE DecDigits(x)

\* the decimal numeral of x read as a two's-complement signed value
SignedDecimal(x) ==
    IF x[1] >= Base \div 2
    THEN <<"-">> \o UnsignedDecimal(SubB(Zeros(Len(x)), x).d)
    ELSE UnsignedDecimal(x)

---------------------------------------------------------------------------
(* FileTimeToPOSIX                                                         *)

WINDOWS_TICK == 10000000

\* 11644473600
SEC_TO_UNIX_EPOCH == Decimal3(0, 1164, 4473600)

\* ULARGE_INTEGER: QuadPart from HighPart and LowPart
QuadPart(high, low) == high \o low

\* mutant: the epoch offset is added instead of subtracted
FileTimeToPOSIX_AddsEpoch(t) ==
    LowDWord(AddC(DivMod(QuadPart(t.dwHighDateTime, t.dwLowDateTime), WINDOWS_TICK).q,
                  SEC_TO_UNIX_EPOCH).d)

FileTimeToPOSIX(t) ==
    LowDWord(SubB(DivMod(QuadPart(t.dwHighDateTime, t.dwLowDateTime), WINDOWS_TICK).q,
                  SEC_TO_UNIX_EPOCH).d)

\* a FILETIME from its 64-bit tick count
FileTime(ticks) ==
    [dwHighDateTime |-> SubSeq(ticks, 1, DWordDigits),
     dwLowDateTime  |-> SubSeq(ticks, DWordDigits + 1, QuadDigits)]

---------------------------------------------------------------------------
(* Text and the library calls the program makes on it.                     *)

UpperLetters ==
    <<"A", "B", "C", "D", "E", "F", "G", "H", "I", "J", "K", "L", "M",
      "N", "O", "P", "Q", "R", "S", "T", "U", "V", "W", "X", "Y", "Z">>

LowerLetters ==
    <<"a", "b", "c", "d", "e", "f", "g", "h", "i", "j", "k", "l", "m",
      "n", "o", "p", "q", "r", "s", "t", "u", "v", "w", "x", "y", "z">>

LowerChar(c) ==
    IF \E k \in 1..Len(UpperLetters) : UpperLetters[k] = c
    THEN LowerLetters[CHOOSE k \in 1..Len(UpperLetters) : UpperLetters[k] = c]
    ELSE c

ToLower(t) == [k \in 1..Len(t) |-> LowerChar(t[k])]

\* lstrcmp: 0 exactly when the two texts are the same, case-sensitively
lstrcmp(a, b) == IF a = b THEN 0 ELSE 1

\* lstrcmpi: 0 exactly when the two texts are the same up to letter case
lstrcmpi(a, b) == IF ToLower(a) = ToLower(b) THEN 0 ELSE 1

\* What wnsprintf does when the formatted text does not fit in cchMax - 1
\* characters depends on the shlwapi build: older ones return the count of
\* the characters kept ("clip"), newer ones return a negative value ("fail").
\* Both leave the first cchMax - 1 characters, terminated, in the buffer.
TruncModes == {"clip", "fail"}

\* wnsprintf(buf, cchMax, ...) where `full` is the completely formatted text:
\* n is the value returned, text is what the buffer holds up to its terminator
wnsprintf(full, cchMax, mode) ==
    IF Len(full) < cchMax - 1 \/ (Len(full) = cchMax - 1 /\ mode = "clip")
    THEN [n |-> Len(full), text |-> full]
    ELSE [n |-> IF mode = "clip" THEN cchMax - 1 ELSE 0 - 1,
          text |-> SubSeq(full, 1, cchMax - 1)]

\* the text puts(buf) writes after `buf[n] = 0` has been stored on top of
\* what wnsprintf left: the buffer up to its first terminator.  A negative n
\* stores outside buf and leaves the text as wnsprintf terminated it.
Terminated(r) == IF r.n >= 0 /\ r.n < Len(r.text) THEN SubSeq(r.text, 1, r.n) ELSE r.text

CCH == 2048

AttribsLen == 16

---------------------------------------------------------------------------
(* printFile                                                               *)

FILE_ATTRIBUTE_READONLY == 1

FILE_ATTRIBUTE_HIDDEN == 2

FILE_ATTRIBUTE_SYSTEM == 4

FILE_ATTRIBUTE_DIRECTORY == 16

FILE_ATTRIBUTE_ARCHIVE == 32

FILE_ATTRIBUTE_DEVICE == 64

FILE_ATTRIBUTE_NORMAL == 128

FILE_ATTRIBUTE_TEMPORARY == 256

FILE_ATTRIBUTE_REPARSE_POINT == 1024

FILE_ATTRIBUTE_COMPRESSED == 2048

FILE_ATTRIBUTE_ENCRYPTED == 16384

\* fa & flag, for a flag of one bit
BitAnd(fa, flag) == ((fa \div flag) % 2) * flag

\* mutant: the hidden and system letters are stored in the other order
AttribLetters_SwapHS(fa) ==
       (IF BitAnd(fa, FILE_ATTRIBUTE_DIRECTORY) # 0 THEN <<"D">> ELSE <<>>)
    \o (IF BitAnd(fa, FILE_ATTRIBUTE_READONLY) # 0 THEN <<"R">> ELSE <<>>)
    \o (IF BitAnd(fa, FILE_ATTRIBUTE_SYSTEM) # 0 THEN <<"S">> ELSE <<>>)
    \o (IF BitAnd(fa, FILE_ATTRIBUTE_HIDDEN) # 0 THEN <<"H">> ELSE <<>>)
    \o (IF BitAnd(fa, FILE_ATTRIBUTE_ARCHIVE) # 0 THEN <<"A">> ELSE <<>>)
    \o (IF BitAnd(fa, FILE_ATTRIBUTE_COMPRESSED) # 0 THEN <<"C">> ELSE <<>>)
    \o (IF BitAnd(fa, FILE_ATTRIBUTE_ENCRYPTED) # 0 THEN <<"E">> ELSE <<>>)

\* attribs[0..i-1] after the seven tests; i is its length
AttribLetters(fa) ==
       (IF BitAnd(fa, FILE_ATTRIBUTE_DIRECTORY) # 0 THEN <<"D">> ELSE <<>>)
    \o (IF BitAnd(fa, FILE_ATTRIBUTE_READONLY) # 0 THEN <<"R">> ELSE <<>>)
    \o (IF BitAnd(fa, FILE_ATTRIBUTE_HIDDEN) # 0 THEN <<"H">> ELSE <<>>)
    \o (IF BitAnd(fa, FILE_ATTRIBUTE_SYSTEM) # 0 THEN <<"S">> ELSE <<>>)
    \o (IF BitAnd(fa, FILE_ATTRIBUTE_ARCHIVE) # 0 THEN <<"A">> ELSE <<>>)
    \o (IF BitAnd(fa, FILE_ATTRIBUTE_COMPRESSED) # 0 THEN <<"C">> ELSE <<>>)
    \o (IF BitAnd(fa, FILE_ATTRIBUTE_ENCRYPTED) # 0 THEN <<"E">> ELSE <<>>)

\* mutant: only the `.` entry is left out
SkipsEntry_DotOnly(name) == lstrcmpi(name, <<".">>) = 0

\* the two early returns of printFile
SkipsEntry(name) ==
    \/ lstrcmpi(name, <<".">>) = 0
    \/ lstrcmpi(name, <<".", ".">>) = 0

\* the text "%s/%d/%d/%d/%lld/%ls\n" formats to for the entry d
EntryLine(d) ==
       AttribLetters(d.dwFileAttributes) \o <<"/">>
    \o SignedDecimal(FileTimeToPOSIX(d.ftCreationTime)) \o <<"/">>
    \o SignedDecimal(FileTimeToPOSIX(d.ftLastAccessTime)) \o <<"/">>
    \o SignedDecimal(FileTimeToPOSIX(d.ftLastWriteTime)) \o <<"/">>
    \o SignedDecimal(QuadPart(d.nFileSizeHigh, d.nFileSizeLow)) \o <<"/">>
    \o d.cFileName \o <<"\n">>

\* printFile(data): whether it returns early; else the text it hands to puts
\* and the terminator stores it does
printFile(d, mode) ==
    IF SkipsEntry(d.cFileName)
    THEN [skip |-> TRUE, text |-> <<>>, stores |-> {}]
    ELSE LET r == wnsprintf(EntryLine(d), CCH - 1, mode)
         IN  [skip   |-> FALSE,
              text   |-> Terminated(r),
              stores |-> {[arr |-> "attribs", idx |-> Len(AttribLetters(d.dwFileAttributes))],
                          [arr |-> "buf", idx |-> r.n]}]

\* the effect of printFile(d) on the console and the buffer
PrintFileEffect(d, mode) ==
    LET r == printFile(d, mode)
    IN  /\ out' = IF r.skip THEN out ELSE Append(out, r.text)
        /\ buf' = IF r.skip THEN buf ELSE r.text
        /\ writes' = writes \cup r.stores

---------------------------------------------------------------------------
(* The inputs: file times, directory entries, command lines.               *)

\* k * 2^32 modulo 2^64, for a small integer k of either sign
Wraps(k) ==
    IF k >= 0 THEN ToDigits(k, DWordDigits) \o Zeros(DWordDigits)
    ELSE SubB(Zeros(QuadDigits), ToDigits(0 - k, DWordDigits) \o Zeros(DWordDigits)).d

\* seconds since 1601 of the instant k * 2^32 + w seconds after 1970
SecondsSince1601(k, w) ==
    AddC(AddC(SEC_TO_UNIX_EPOCH, Wraps(k)).d, Zeros(DWordDigits) \o w).d

\* the tick count of the instant k * 2^32 + w seconds and r ticks after 1970
TicksOf(k, w, r) ==
    AddC(MulC(SecondsSince1601(k, w), WINDOWS_TICK).d, ToDigits(r, QuadDigits)).d

\* the instant lies in 0 .. 2^64 - 1 ticks
TicksInRange(k, w, r) ==
    /\ MulC(SecondsSince1601(k, w), WINDOWS_TICK).c = 0
    /\ AddC(MulC(SecondsSince1601(k, w), WINDOWS_TICK).d, ToDigits(r, QuadDigits)).c = 0

Seconds0 == Zeros(DWordDigits)

Seconds1 == ToDigits(1, DWordDigits)

SecondsBillion == ToDigits(1000000000, DWordDigits)

\* 2^31 - 1, 2^31 and 2^32 - 1
SecondsIntMax == ToDigits(2147483647, DWordDigits)

SecondsIntMin == AddC(SecondsIntMax, Seconds1).d

SecondsUIntMax == [k \in 1..DWordDigits |-> Base - 1]

\* what tick count 0 (1601-01-01T00:00:00Z) converts to: 3 * 2^32 - 11644473600
SecondsOfTickZero == ToDigits(1240428288, DWordDigits)

SecondSamples ==
    {Seconds0, Seconds1, SecondsBillion, SecondsOfTickZero, SecondsIntMax, SecondsIntMin,
     SecondsUIntMax}

\* whole multiples of 2^32 seconds away from 1970..2106: before 1970 (negative)
\* and after 2106 (positive), up to the last one a tick count can hold
WrapSamples == {0 - 3, 0 - 2, 0 - 1, 0, 1, 426}

TickRemainders == {0, 1, WINDOWS_TICK - 1}

\* 1970-01-01T00:00:00Z and 2001-09-09T01:46:40Z as tick counts:
\* 116444736000000000 and 126444736000000000
TicksEpoch1970 == Decimal3(1164, 4473600, 0)

Ticks2001 == Decimal3(1264, 4473600, 0)

Entry(name, fa, created, accessed, written, sizeHigh, sizeLow) ==
    [cFileName        |-> name,
     dwFileAttributes |-> fa,
     ftCreationTime   |-> FileTime(created),
     ftLastAccessTime |-> FileTime(accessed),
     ftLastWriteTime  |-> FileTime(written),
     nFileSizeHigh    |-> sizeHigh,
     nFileSizeLow     |-> sizeLow]

\* ZERO(data)
ZeroData ==
    Entry(<<>>, 0, Zeros(QuadDigits), Zeros(QuadDigits), Zeros(QuadDigits),
          Zeros(DWordDigits), Zeros(DWordDigits))

MaxNameLen == 259

LongName == [k \in 1..MaxNameLen |-> "n"]

Dot == <<".">>

DotDot == <<".", ".">>

NameATxt == <<"A", ".", "t", "x", "t">>

NameSys == <<"S", "y", "s">>

SevenFlags ==
    {FILE_ATTRIBUTE_DIRECTORY, FILE_ATTRIBUTE_READONLY, FILE_ATTRIBUTE_HIDDEN,
     FILE_ATTRIBUTE_SYSTEM, FILE_ATTRIBUTE_ARCHIVE, FILE_ATTRIBUTE_COMPRESSED,
     FILE_ATTRIBUTE_ENCRYPTED}

OtherFlags ==
    {FILE_ATTRIBUTE_DEVICE, FILE_ATTRIBUTE_NORMAL, FILE_ATTRIBUTE_TEMPORARY,
     FILE_ATTRIBUTE_REPARSE_POINT}

RECURSIVE SetSum(_)
SetSum(S) == IF S = {} THEN 0 ELSE LET x == CHOOSE x \in S : TRUE IN x + SetSum(S \ {x})

\* the entries an enumeration of the program run delivers
Entries ==
    {Entry(Dot, FILE_ATTRIBUTE_DIRECTORY, Ticks2001, Ticks2001, Ticks2001, Seconds0, Seconds0),
     Entry(DotDot, FILE_ATTRIBUTE_DIRECTORY + FILE_ATTRIBUTE_HIDDEN,
           TicksEpoch1970, Ticks2001, Ticks2001, Seconds0, Seconds0),
     Entry(NameATxt, FILE_ATTRIBUTE_ARCHIVE, TicksEpoch1970, Ticks2001, Ticks2001,
           Seconds0, SecondsBillion),
     Entry(NameSys, FILE_ATTRIBUTE_DIRECTORY + FILE_ATTRIBUTE_HIDDEN + FILE_ATTRIBUTE_SYSTEM,
           Ticks2001, TicksOf(0, SecondsIntMin, 0), TicksOf(1, Seconds1, 1),
           Seconds0, Seconds0),
     Entry(LongName, SetSum(SevenFlags \cup OtherFlags),
           TicksOf(0, SecondsUIntMax, 0), TicksOf(0, SecondsUIntMax, 0),
           TicksOf(0, SecondsUIntMax, 0), SecondsUIntMax, SecondsUIntMax)}

\* the times and sizes of the entries of the stand-alone printFile calls
TimeTriples ==
    {<<TicksEpoch1970, Ticks2001, TicksOf(0, SecondsIntMax, 1)>>,
     <<TicksOf(0, SecondsIntMin, 0), TicksOf(0 - 1, SecondsUIntMax, 0), Zeros(QuadDigits)>>,
     <<TicksOf(1, Seconds0, 0), TicksOf(0, SecondsUIntMax, 1), Ticks2001>>}

SizePairs == {<<Seconds0, Seconds1>>, <<Seconds1, Seconds0>>, <<SecondsIntMin, Seconds0>>}

MaxArgs == 3

LongLen == 2040

LongPattern == [k \in 1..LongLen |-> "x"]

OpDir == <<"d", "i", "r">>

ArgTexts == {OpDir, <<"D", "I", "R">>, <<"x", "*">>, LongPattern}

ArgLists == UNION {[1..n -> ArgTexts] : n \in 0..MaxArgs}

MaxEntries == 2

---------------------------------------------------------------------------
(* The program: run, dir and the enumeration loop.                         *)

UsageText ==
    <<"E", "x", "p", "e", "c", "t", "e", "d", " ", "2", " ", "a", "r", "g", "u", "m",
      "e", "n", "t", "s", ":", " ", "o", "p", "e", "r", "a", "t", "i", "o", "n", " ",
      "a", "r", "g", "\n">>

UnknownText ==
    <<"U", "n", "k", "n", "o", "w", "n", " ", "o", "p", "e", "r", "a", "t", "i", "o",
      "n", ".", " ", "S", "h", "o", "u", "l", "d", " ", "b", "e", " ", "\"", "d", "i",
      "r", "\"", ".", "\n">>

\* the text "Failed to read \"%ls\" (%d)\n" formats to
FailedPrefix ==
    <<"F", "a", "i", "l", "e", "d", " ", "t", "o", " ", "r", "e", "a", "d", " ", "\"">>

FailedLine(path, err) ==
       FailedPrefix
    \o path \o <<"\"", " ", "(">>
    \o SignedDecimal(ToDigits(err, DWordDigits)) \o <<")", "\n">>

ERROR_NO_MORE_FILES == 18

\* last-error codes of a failing FindFirstFile: file not found, path not
\* found, access denied, invalid name
OpenErrors == {2, 3, 5, 123}

\* last-error codes of a FindNextFile that returns FALSE: the enumeration is
\* exhausted, or the step failed (access denied, device not ready)
NextFileErrors == {ERROR_NO_MORE_FILES, 5, 21}

\* what FindFirstFile can return: no handle and a last-error code, or a
\* handle and the first entry
FirstResult(h, e, d) == [handle |-> h, err |-> e, entry |-> d]

puts(text) == out' = Append(out, text)

\* mutant: the argument count is only checked from below
ArgcWrong_TooFew(argc) == argc < 3

\* run: the argument-count test
ArgcWrong(argc) == argc # 3

\* mutant: the sub-command is compared without regard to case
IsDirOp_IgnoreCase(op) == lstrcmpi(OpDir, op) = 0

\* run: the sub-command test
IsDirOp(op) == lstrcmp(OpDir, op) = 0

\* dir: the test of the handle FindFirstFile returned
OpenFailed(h) == h = "NULL" \/ h = "INVALID_HANDLE_VALUE"

\* what can follow the store buf[n] = 0: inside buf the program goes on; a
\* store outside buf is undefined, the program goes on or the process faults
StoreOutcomes(n) == IF n >= 0 /\ n < CCH THEN {"goes on"} ELSE {"goes on", "fault"}

\* a use of the handle by FindNextFile or FindClose
UsesHandle == badUse' = (badUse \/ find # "open")

\* run, up to its return or its call of dir
run ==
    /\ pc = "start"
    /\ IF ArgcWrong(Len(args) + 1)
       THEN /\ puts(UsageText)
            /\ exitCode' = 1
            /\ pc' = "done"
       ELSE IF IsDirOp(args[1])
       THEN /\ pc' = "dir"
            /\ UNCHANGED <<out, exitCode>>
       ELSE /\ puts(UnknownText)
            /\ exitCode' = 0
            /\ pc' = "done"
    /\ UNCHANGED <<args, buf, writes, find, data, delivered, ended, lastError,
                   nOpen, nClose, badUse, dirRet, ft, expect, posix>>

\* dir(argv[2]) from its entry to the loop, or to its return on a failed open
dirOpen ==
    /\ pc = "dir"
    /\ \E res \in {FirstResult(h, e, ZeroData) :
                        h \in {"NULL", "INVALID_HANDLE_VALUE"}, e \in OpenErrors}
                   \cup {FirstResult("open", 0, d) : d \in Entries},
          mode \in TruncModes :
          IF OpenFailed(res.handle)
          THEN LET r == wnsprintf(FailedLine(args[2], res.err), CCH - 1, mode)
               IN  /\ find' = res.handle
                   /\ data' = ZeroData
                   /\ lastError' = res.err
                   /\ ended' = "openfail"
                   /\ writes' = writes \cup {[arr |-> "buf", idx |-> r.n]}
                   /\ buf' = Terminated(r)
                   /\ \E after \in StoreOutcomes(r.n) :
                         IF after = "fault"
                         THEN /\ pc' = "fault"
                              /\ UNCHANGED <<out, dirRet, exitCode>>
                         ELSE /\ puts(Terminated(r))
                              /\ dirRet' = 2
                              /\ exitCode' = 2
                              /\ pc' = "done"
                   /\ UNCHANGED <<delivered, nOpen>>
          ELSE /\ find' = res.handle
               /\ nOpen' = nOpen + 1
               /\ data' = res.entry
               /\ delivered' = <<res.entry>>
               /\ pc' = "loop"
               /\ UNCHANGED <<out, buf, writes, ended, lastError, dirRet, exitCode>>
    /\ UNCHANGED <<args, nClose, badUse, ft, expect, posix>>

\* one turn of the loop: printFile(data), then FindNextFile delivers an entry
dirNext ==
    /\ pc = "loop"
    /\ Len(delivered) < MaxEntries
    /\ \E e \in Entries, mode \in TruncModes :
          /\ PrintFileEffect(data, mode)
          /\ UsesHandle
          /\ data' = e
          /\ delivered' = Append(delivered, e)
    /\ UNCHANGED <<pc, args, find, ended, lastError, nOpen, nClose, dirRet, exitCode,
                   ft, expect, posix>>

\* mutant: the handle is not closed when the loop ends
dirLoopEnd_NoClose ==
    /\ pc = "loop"
    /\ \E err \in NextFileErrors, mode \in TruncModes :
          /\ PrintFileEffect(data, mode)
          /\ UsesHandle
          /\ lastError' = err
          /\ ended' = IF err = ERROR_NO_MORE_FILES THEN "exhausted" ELSE "error"
    /\ dirRet' = 0
    /\ exitCode' = 0
    /\ pc' = "done"
    /\ UNCHANGED <<args, find, nClose, data, delivered, nOpen, ft, expect, posix>>

\* mutant: a failed step is told from the end of the enumeration and reported
dirLoopEnd_ReportsError ==
    /\ pc = "loop"
    /\ \E err \in NextFileErrors, mode \in TruncModes :
          /\ PrintFileEffect(data, mode)
          /\ UsesHandle
          /\ lastError' = err
          /\ ended' = IF err = ERROR_NO_MORE_FILES THEN "exhausted" ELSE "error"
          /\ dirRet' = IF err = ERROR_NO_MORE_FILES THEN 0 ELSE 2
          /\ exitCode' = IF err = ERROR_NO_MORE_FILES THEN 0 ELSE 2
    /\ find' = "closed"
    /\ nClose' = nClose + 1
    /\ pc' = "done"
    /\ UNCHANGED <<args, data, delivered, nOpen, ft, expect, posix>>

\* the last turn of the loop: printFile(data), then FindNextFile returns FALSE
\* (for whatever reason), the handle is closed and dir returns 0
dirLoopEnd ==
    /\ pc = "loop"
    /\ \E err \in NextFileErrors, mode \in TruncModes :
          /\ PrintFileEffect(data, mode)
          /\ UsesHandle
          /\ lastError' = err
          /\ ended' = IF err = ERROR_NO_MORE_FILES THEN "exhausted" ELSE "error"
    /\ find' = "closed"
    /\ nClose' = nClose + 1
    /\ dirRet' = 0
    /\ exitCode' = 0
    /\ pc' = "done"
    /\ UNCHANGED <<args, data, delivered, nOpen, ft, expect, posix>>

\* the state before anything has run
Fresh(at, argv, d, ticks, seconds) ==
    /\ pc = at
    /\ args = argv
    /\ out = <<>>
    /\ buf = <<>>
    /\ writes = {}
    /\ find = "unset"
    /\ data = d
    /\ delivered = <<>>
    /\ ended = "none"
    /\ lastError = 0
    /\ nOpen = 0
    /\ nClose = 0
    /\ badUse = FALSE
    /\ dirRet = 0 - 1
    /\ exitCode = 0 - 1
    /\ ft = FileTime(ticks)
    /\ expect = seconds
    /\ posix = Seconds0

Init == \E argv \in ArgLists : Fresh("start", argv, ZeroData, Zeros(QuadDigits), Seconds0)

Next == run \/ dirOpen \/ dirNext \/ dirLoopEnd

Spec == Init /\ [][Next]_vars

---------------------------------------------------------------------------
(* printFile on its own, over every combination of attribute flags.        *)

InitFile ==
    \E n \in {Dot, DotDot, NameATxt}, S \in SUBSET SevenFlags, O \in {{}, OtherFlags},
       t \in TimeTriples, z \in SizePairs :
        Fresh("file_call", <<>>,
              Entry(n, SetSum(S) + SetSum(O), t[1], t[2], t[3], z[1], z[2]),
              Zeros(QuadDigits), Seconds0)

fileCall ==
    /\ pc = "file_call"
    /\ \E mode \in TruncModes : PrintFileEffect(data, mode)
    /\ pc' = "file_ret"
    /\ UNCHANGED <<args, find, data, delivered, ended, lastError, nOpen, nClose,
                   badUse, dirRet, exitCode, ft, expect, posix>>

NextFile == fileCall

SpecFile == InitFile /\ [][NextFile]_vars

---------------------------------------------------------------------------
(* FileTimeToPOSIX on its own.                                             *)

\* the argument is assembled from the seconds the call has to give back; the
\* last two are 1970-01-01T00:00:00Z and 2001-09-09T01:46:40Z
InitTime ==
    \/ \E k \in WrapSamples, w \in SecondSamples, r \in TickRemainders :
          /\ TicksInRange(k, w, r)
          /\ Fresh("time_call", <<>>, ZeroData, TicksOf(k, w, r), w)
    \/ Fresh("time_call", <<>>, ZeroData, TicksEpoch1970, Seconds0)
    \/ Fresh("time_call", <<>>, ZeroData, Ticks2001, SecondsBillion)

timeCall ==
    /\ pc = "time_call"
    /\ posix' = FileTimeToPOSIX(ft)
    /\ pc' = "time_ret"
    /\ UNCHANGED <<args, out, buf, writes, find, data, delivered, ended, lastError,
                   nOpen, nClose, badUse, dirRet, exitCode, ft, expect>>

NextTime == timeCall

SpecTime == InitTime /\ [][NextTime]_vars

---------------------------------------------------------------------------
(* Properties.                                                             *)

Contains(t, sub) ==
    \E k \in 0..(Len(t) - Len(sub)) : SubSeq(t, k + 1, k + Len(sub)) = sub

StartsWith(t, sub) == Len(t) >= Len(sub) /\ SubSeq(t, 1, Len(sub)) = sub

\* exactly one line: one newline, at the end
IsOneLine(t) == Len(t) >= 1 /\ \A k \in 1..Len(t) : (t[k] = "\n") <=> (k = Len(t))

SlashesOf(line) == {k \in 1..Len(line) : line[k] = "/"}

NthSlash(line, j) ==
    IF j = 0 THEN 0
    ELSE CHOOSE k \in SlashesOf(line) : Cardinality({m \in SlashesOf(line) : m <= k}) = j

\* the j-th of the fields of a line that `/` separates
Field(line, j) == SubSeq(line, NthSlash(line, j - 1) + 1, NthSlash(line, j) - 1)

IsRealEntry(e) == e.cFileName # Dot /\ e.cFileName # DotDot

\* the lines of the entries of a sequence that are not `.` or `..`, in order
LinesOf(entries) ==
    LET kept == SelectSeq(entries, IsRealEntry)
    IN  [k \in 1..Len(kept) |-> EntryLine(kept[k])]

\* the entries printFile has been called on
Printed == IF pc = "loop" THEN SubSeq(delivered, 1, Len(delivered) - 1) ELSE delivered

DirReturned == pc = "done" /\ ended # "none"

\* C1: when the open fails, dir writes exactly one line, which contains the
\* pattern text and the error code, writes no entry line, and returns 2.
C1_OpenFailureLine ==
    (DirReturned /\ ended = "openfail") =>
        /\ Len(out) = 1
        /\ IsOneLine(out[1])
        /\ Contains(out[1], args[2])
        /\ Contains(out[1], UnsignedDecimal(ToDigits(lastError, DWordDigits)))
        /\ delivered = <<>>
        /\ dirRet = 2

\* C2: the lines written are exactly one per delivered entry whose name is
\* not `.` or `..`, in enumeration order; a listing of only `.`/`..` entries
\* writes nothing and returns 0.
C2_OneLinePerRealEntry ==
    (pc \in {"loop", "done"} /\ nOpen = 1) =>
        /\ out = LinesOf(Printed)
        /\ (pc = "done" /\ \A k \in 1..Len(delivered) : ~IsRealEntry(delivered[k]))
              => (out = <<>> /\ dirRet = 0)

C2_Witness ==
    /\ pc = "done"
    /\ Len(delivered) = 2
    /\ delivered[1].cFileName = DotDot
    /\ delivered[2].cFileName = NameATxt
    /\ Len(out) = 1

FlagLetters ==
    <<[flag |-> FILE_ATTRIBUTE_DIRECTORY,  letter |-> "D"],
      [flag |-> FILE_ATTRIBUTE_READONLY,   letter |-> "R"],
      [flag |-> FILE_ATTRIBUTE_HIDDEN,     letter |-> "H"],
      [flag |-> FILE_ATTRIBUTE_SYSTEM,     letter |-> "S"],
      [flag |-> FILE_ATTRIBUTE_ARCHIVE,    letter |-> "A"],
      [flag |-> FILE_ATTRIBUTE_COMPRESSED, letter |-> "C"],
      [flag |-> FILE_ATTRIBUTE_ENCRYPTED,  letter |-> "E"]>>

FlagIsSet(fa, flag) == (fa \div flag) % 2 = 1

\* C3: the attribute string holds exactly the letters of the set flags among
\* D,R,H,S,A,C,E, each at most once, in that order; no other bit gives a letter.
C3_AttributeLetters ==
    (pc = "file_ret" /\ Len(out) = 1) =>
        LET a  == Field(out[1], 1)
            fa == data.dwFileAttributes
        IN  /\ \A k \in 1..Len(FlagLetters) :
                  FlagIsSet(fa, FlagLetters[k].flag)
                      <=> (\E m \in 1..Len(a) : a[m] = FlagLetters[k].letter)
            /\ \A m \in 1..Len(a) : \E k \in 1..Len(FlagLetters) : a[m] = FlagLetters[k].letter
            /\ \A m, n \in 1..Len(a) :
                  m < n => \E k, l \in 1..Len(FlagLetters) :
                              /\ k < l
                              /\ a[m] = FlagLetters[k].letter
                              /\ a[n] = FlagLetters[l].letter
            /\ (fa = FILE_ATTRIBUTE_DIRECTORY) => (a = <<"D">>)
            /\ (fa = FILE_ATTRIBUTE_DIRECTORY + FILE_ATTRIBUTE_HIDDEN + FILE_ATTRIBUTE_SYSTEM)
                  => (a = <<"D", "H", "S">>)

C3_Witness ==
    /\ pc = "file_ret"
    /\ Len(out) = 1
    /\ data.dwFileAttributes = SetSum(SevenFlags \cup OtherFlags)
    /\ Field(out[1], 1) = <<"D", "R", "H", "S", "A", "C", "E">>

\* C4: FileTimeToPOSIX gives (ticks div 10000000 - 11644473600) modulo 2^32:
\* the seconds the tick count was assembled from, whatever multiple of 2^32
\* seconds and whatever part of a second were added; 116444736000000000
\* gives 0 and 126444736000000000 gives 1000000000.
C4_FileTimeToPOSIX ==
    (pc = "time_ret") =>
        /\ posix = expect
        /\ (QuadPart(ft.dwHighDateTime, ft.dwLowDateTime) = TicksEpoch1970)
              => (posix = Zeros(DWordDigits))
        /\ (QuadPart(ft.dwHighDateTime, ft.dwLowDateTime) = Ticks2001)
              => (posix = ToDigits(1000000000, DWordDigits))

C4_Witness ==
    /\ pc = "time_ret"
    /\ ft = FileTime(TicksOf(1, SecondsIntMin, WINDOWS_TICK - 1))
    /\ posix = SecondsIntMin

\* C5 as stated: on every exit path of dir, the failed open included, the
\* handle has been released exactly once.
C5_ReleasedOnEveryPath == DirReturned => nClose = 1

\* C5 as amended: a handle is acquired at most once; after a successful open
\* it is released exactly once before dir returns, whether the enumeration
\* was exhausted or a step failed; after a failed open there is no handle and
\* nothing is released; no handle is released twice or used when not open.
C5_ReleasedOnceWhenAcquired ==
    /\ nOpen <= 1
    /\ nClose <= nOpen
    /\ ~badUse
    /\ (pc = "loop") => (find = "open" /\ nOpen = 1 /\ nClose = 0)
    /\ (DirReturned /\ ended \in {"exhausted", "error"})
          => (nOpen = 1 /\ nClose = 1 /\ find = "closed")
    /\ (DirReturned /\ ended = "openfail") => (nOpen = 0 /\ nClose = 0)

C5_Witness == DirReturned /\ ended = "error" /\ nClose = 1 /\ Len(delivered) = 2

\* C6: with an argument count other than two, run writes the usage line only,
\* opens no enumeration and returns 1, whatever the first argument is.
C6_UsageError ==
    (Len(args) # 2) =>
        /\ pc \in {"start", "done"}
        /\ find = "unset" /\ nOpen = 0 /\ ended = "none" /\ dirRet = 0 - 1
        /\ (pc = "done") => (out = <<UsageText>> /\ exitCode = 1)

C6_Witness ==
    /\ pc = "done"
    /\ Len(args) = 3
    /\ args[1] = OpDir
    /\ out = <<UsageText>>
    /\ exitCode = 1

\* C7: with two arguments of which the first is not exactly `dir`, run writes
\* the unknown-operation line only, opens no enumeration and returns 0; dir
\* runs only when the first argument is `dir`, and run returns what dir did.
C7_UnknownOperation ==
    /\ (pc = "done" /\ Len(args) = 2 /\ args[1] # OpDir)
          => /\ out = <<UnknownText>>
             /\ find = "unset" /\ nOpen = 0 /\ ended = "none" /\ dirRet = 0 - 1
             /\ exitCode = 0
    /\ (pc \in {"dir", "loop"} \/ find # "unset" \/ ended # "none")
          => (Len(args) = 2 /\ args[1] = OpDir)
    /\ (dirRet # 0 - 1) => (pc = "done" /\ exitCode = dirRet)

C7_Witness ==
    /\ pc = "done"
    /\ args = <<(<<"D", "I", "R">>), (<<"x", "*">>)>>
    /\ out = <<UnknownText>>
    /\ exitCode = 0

\* C8: a step that fails after k entries ends dir as an exhausted enumeration
\* does: the lines of those k entries, no diagnostic line, return value 0;
\* 2 is returned only after a failed open.
C8_StepErrorIsSilent ==
    /\ (DirReturned /\ ended \in {"error", "exhausted"})
          => /\ out = LinesOf(delivered)
             /\ \A k \in 1..Len(out) : ~StartsWith(out[k], FailedPrefix)
             /\ dirRet = 0
             /\ exitCode = 0
    /\ (exitCode = 2 \/ dirRet = 2) => ended = "openfail"

C8_Witness ==
    /\ DirReturned
    /\ ended = "error"
    /\ Len(delivered) = 2
    /\ Len(out) = 2
    /\ exitCode = 0

\* C9: the three timestamp fields of a written line are the unsigned decimal
\* numerals of the converted 32-bit values, and the size field is the unsigned
\* decimal numeral of the 64-bit size.
C9_UnsignedFields ==
    (pc = "file_ret" /\ Len(out) = 1) =>
        /\ Field(out[1], 2) = UnsignedDecimal(FileTimeToPOSIX(data.ftCreationTime))
        /\ Field(out[1], 3) = UnsignedDecimal(FileTimeToPOSIX(data.ftLastAccessTime))
        /\ Field(out[1], 4) = UnsignedDecimal(FileTimeToPOSIX(data.ftLastWriteTime))
        /\ Field(out[1], 5) = UnsignedDecimal(QuadPart(data.nFileSizeHigh, data.nFileSizeLow))

\* C10: every terminator store is within its array: attribs[i] with i <= 7
\* (inside the 16 elements), buf[n] with n in 0..CCH-1.
C10_StoresInBounds ==
    \A w \in writes :
        /\ (w.arr = "attribs") => (w.idx >= 0 /\ w.idx <= 7 /\ w.idx < AttribsLen)
        /\ (w.arr = "buf") => (w.idx >= 0 /\ w.idx <= CCH - 1)

====
